---- MODULE Spec2Model ----
(***************************************************************************)
(* Model of plugins/modules/vm_snapshot.py: one invocation of the          *)
(* vm_snapshot module (main -> VmSnapshotModule.__init__ ->                *)
(* apply_snapshot_op -> exit_json), with the vendor SDK, the task monitor  *)
(* and the Ansible runtime as nondeterministic collaborators (Spec); and   *)
(* of plugins/module_utils/clients/_rest.py: one call of                   *)
(* VmwareRestClient.connect_to_api (SpecRest).                             *)
(***************************************************************************)
EXTENDS Integers, Sequences, FiniteSets, TLC

\* Largest number of snapshots on the VM when the invocation starts.
MaxNodes == 3

\* Snapshot names that occur in trees and selectors.
Names == {"a", "b"}

\* A string parameter that is None or '' (both falsy in Python).
NoName == ""

\* An integer parameter that is None or 0 (both falsy in Python).
NoId == 0

\* self.snap_object = None
NoSnapshot == 0

\* result has no 'snapshot_results' key
NoResults == -1

States == {"present", "absent", "rename", "revert", "remove_all"}

\* Texts of the exceptions the collaborators can raise.
ErrorTexts == {"err1", "err2"}

VARIABLES
    params,       \* module.params
    caps,         \* vm.capability
    tree,         \* vm.snapshot.rootSnapshotList on the server (<<>>: vm.snapshot is None)
    vm,           \* self.vm: "unbound" | "inherited" | "looked_up"
    matches,      \* the value get_snapshots_recursively() returned in __init__
    snap_object,  \* self.snap_object
    result,       \* self.result
    task,         \* local 'task' of apply_snapshot_op: "unset" | "None" | "handle"
    taskState,    \* the vendor task: "none" | "running" | "success" | "error"
    taskError,    \* text of the TaskError the monitor raises for a failed task
    calls,        \* vendor operations invoked so far
    epoch,        \* number of mutations the server has completed on the VM's tree
    pc,           \* position of the invocation
    output        \* what the invocation returned to Ansible

vars == <<params, caps, tree, vm, matches, snap_object, result, task, taskState,
          taskError, calls, epoch, pc, output>>

\* The state of one VmwareRestClient.connect_to_api call (clients/_rest.py).
VARIABLES
    conn,          \* connection_params, as connect_to_api reads it
    session,       \* the requests.Session: [built, verify, proxies]
    warningsOff,   \* urllib3.disable_warnings(InsecureRequestWarning) was called
    authCalls,     \* create_vsphere_client calls made so far
    client,        \* what connect_to_api returned: "none" | "client"
    raised,        \* the exception connect_to_api ended with
    rpc            \* position inside connect_to_api

restVars == <<conn, session, warningsOff, authCalls, client, raised, rpc>>

allVars == <<vars, restVars>>

----------------------------------------------------------------------------
\* Snapshot trees: ordered forests of [id, name, childSnapshotList] with n nodes,
\* ids numbered in pre-order from 'start' (unique within the VM).

RECURSIVE ForestsOf(_, _)
ForestsOf(n, start) ==
    IF n = 0 THEN {<<>>}
    ELSE UNION { { <<[id |-> start, name |-> nm, childSnapshotList |-> c]>> \o r :
                     nm \in Names,
                     c \in ForestsOf(k - 1, start + 1),
                     r \in ForestsOf(n - k, start + k) } : k \in 1..n }

Forests == UNION { ForestsOf(n, 1) : n \in 0..MaxNodes }

\* Every node of a forest, in pre-order.
RECURSIVE AllNodes(_)
AllNodes(snapshots) ==
    IF Len(snapshots) = 0 THEN <<>>
    ELSE <<Head(snapshots)>> \o AllNodes(Head(snapshots).childSnapshotList)
             \o AllNodes(Tail(snapshots))

----------------------------------------------------------------------------
\* The resolver.

RECURSIVE get_snapshots_by_name_recursively(_, _)
get_snapshots_by_name_recursively(snapshots, snapname) ==
    IF Len(snapshots) = 0 THEN <<>>
    ELSE LET snapshot == Head(snapshots)
             here == IF snapshot.name = snapname
                     THEN <<snapshot>>
                     ELSE get_snapshots_by_name_recursively(snapshot.childSnapshotList, snapname)
         IN here \o get_snapshots_by_name_recursively(Tail(snapshots), snapname)

RECURSIVE get_snapshots_by_id_recursively(_, _)
get_snapshots_by_id_recursively(snapshots, snapid) ==
    IF Len(snapshots) = 0 THEN <<>>
    ELSE LET snapshot == Head(snapshots)
             here == IF snapshot.id = snapid
                     THEN <<snapshot>>
                     ELSE get_snapshots_by_id_recursively(snapshot.childSnapshotList, snapid)
         IN here \o get_snapshots_by_id_recursively(Tail(snapshots), snapid)

\* The value of a Python call that returns either a list or None.
ListValue(items) == [none |-> FALSE, items |-> items]
NoneValue == [none |-> TRUE, items |-> <<>>]

\* Which search get_snapshots_recursively runs: "name", "id", or "" (falls off the
\* end of the function and returns None).
SearchKind(p) ==
    IF p.snapshot_name # NoName THEN "name"
    ELSE IF p.snapshot_id # NoId /\ p.state \in {"absent", "revert"} THEN "id"
    ELSE ""

get_snapshots_recursively(p, rootSnapshotList) ==
    CASE SearchKind(p) = "name" ->
            ListValue(get_snapshots_by_name_recursively(rootSnapshotList, p.snapshot_name))
      [] SearchKind(p) = "id" ->
            ListValue(get_snapshots_by_id_recursively(rootSnapshotList, p.snapshot_id))
      [] OTHER -> NoneValue

\* self.snap_object after the "exactly one match" rule.
Disambiguate(items) ==
    IF Len(items) = 1 THEN items[1].id ELSE NoSnapshot

----------------------------------------------------------------------------
\* What the invocation hands back to Ansible.

NoOutput == [kind |-> "none", changed |-> FALSE, renamed |-> FALSE,
             msg |-> <<>>, snapshot_results |-> NoResults]

\* module.fail_json(msg=...): only the message is passed.
fail_json(msg) == [kind |-> "fail", changed |-> FALSE, renamed |-> FALSE,
                   msg |-> msg, snapshot_results |-> NoResults]

\* module.exit_json(changed=False, msg=...)
exit_json_msg(changed, msg) == [kind |-> "exit", changed |-> changed, renamed |-> FALSE,
                                msg |-> msg, snapshot_results |-> NoResults]

\* module.exit_json(**vm_snapshot.result)
exit_json(res) == [kind |-> "exit", changed |-> res.changed, renamed |-> res.renamed,
                   msg |-> <<>>, snapshot_results |-> res.snapshot_results]

\* An exception nothing catches: the module dies with a traceback naming the
\* exception and the expression that raised it.
Uncaught(exc, expr) == [kind |-> "crash", changed |-> FALSE, renamed |-> FALSE,
                        msg |-> <<exc, expr>>, snapshot_results |-> NoResults]

SelectorText(p) ==
    IF p.snapshot_name # NoName THEN p.snapshot_name
    ELSE IF p.snapshot_id # NoId THEN ToString(p.snapshot_id)
    ELSE "None"

NameRequiredMsg(p) == <<"snapshot_name param required when state is", p.state>>
NotFoundMsg(p) == <<"Couldn't find any snapshots with specified name", SelectorText(p)>>
AlreadyExistsMsg(p) ==
    <<"Snapshot named already exists",
      IF p.snapshot_name = NoName THEN "None" ELSE p.snapshot_name>>
VmNotFoundMsg == <<"Unable to find VM">>
RestrictedMsg(text) == <<"Failed to take snapshot due to VMware Licence restriction", text>>
CreateFailedMsg(text) == <<"Failed to create snapshot of virtual machine", text>>

\* to_text(e) of an exception carrying 'text'.
to_text(text) == <<text>>

----------------------------------------------------------------------------
\* Inputs.

\* argument_spec: choices, defaults and mutually_exclusive [snapshot_name, snapshot_id].
\* Options a state never reads are left at their defaults.
ParamSpace ==
    { p \in [ state : States,
              snapshot_name : Names \cup {NoName},
              snapshot_id : {NoId} \cup (1..MaxNodes),
              quiesce : BOOLEAN,
              memory_dump : BOOLEAN,
              remove_children : BOOLEAN,
              new_snapshot_name : {NoName, "c"},
              new_description : {NoName, "d"} ] :
        /\ ~(p.snapshot_name # NoName /\ p.snapshot_id # NoId)
        /\ (p.state # "present" => ~p.quiesce /\ ~p.memory_dump)
        /\ (p.state # "absent" => ~p.remove_children)
        /\ (p.state # "rename" =>
                p.new_snapshot_name = NoName /\ p.new_description = NoName) }

CapSpace(p) ==
    IF p.state = "present"
    THEN [memorySnapshotsSupported : BOOLEAN, quiescedSnapshotsSupported : BOOLEAN]
    ELSE {[memorySnapshotsSupported |-> TRUE, quiescedSnapshotsSupported |-> TRUE]}

\* connection_params.get('port', 443)
DefaultPort == 443

NoSession == [built |-> FALSE, verify |-> FALSE, proxies |-> {}]

NotRaised == [type |-> "", msg |-> <<>>]

ApiAccessError(msg) == [type |-> "ApiAccessError", msg |-> msg]

\* The client is not in use: the state of these variables in a run of vm_snapshot.
RestIdle ==
    /\ conn = [hostname |-> NoName, username |-> NoName, password |-> NoName,
               port |-> DefaultPort, validate_certs |-> FALSE,
               http_proxy_host |-> NoName, http_proxy_port |-> 0,
               http_proxy_protocol |-> NoName]
    /\ session = NoSession
    /\ warningsOff = FALSE
    /\ authCalls = <<>>
    /\ client = "none"
    /\ raised = NotRaised
    /\ rpc = "idle"

Init ==
    /\ params \in ParamSpace
    /\ caps \in CapSpace(params)
    /\ tree \in Forests
    /\ vm = "unbound"
    /\ matches = NoneValue
    /\ snap_object = NoSnapshot
    /\ result = [changed |-> FALSE, renamed |-> FALSE, snapshot_results |-> NoResults]
    /\ task = "unset"
    /\ taskState = "none"
    /\ taskError = ""
    /\ calls = <<>>
    /\ epoch = 0
    /\ pc = "super"
    /\ output = NoOutput
    /\ RestIdle

----------------------------------------------------------------------------
\* VmSnapshotModule.__init__

\* super(ModulePyvmomiBase, self).__init__(module); self.result = dict(...).
\* The base constructor is outside this module: it either leaves self.vm unset
\* or leaves a VM object bound to it.
BaseInit ==
    /\ pc = "super"
    /\ \E bound \in {"unbound", "inherited"} : vm' = bound
    /\ result' = [changed |-> FALSE, renamed |-> FALSE, snapshot_results |-> NoResults]
    /\ pc' = "resolve"
    /\ UNCHANGED <<params, caps, tree, matches, snap_object, task, taskState,
                   taskError, calls, epoch, output>>
    /\ UNCHANGED restVars

\* The outcome of the resolution block: the exception it dies with ("" if none),
\* the search result and self.snap_object.
ResolveOutcome(v, p, rootSnapshotList) ==
    IF v = "unbound"
    THEN [exc |-> "AttributeError", expr |-> "self.vm",
          found |-> NoneValue, snap |-> NoSnapshot]
    ELSE IF Len(rootSnapshotList) = 0
    THEN [exc |-> "", expr |-> "", found |-> NoneValue, snap |-> NoSnapshot]
    ELSE LET found == get_snapshots_recursively(p, rootSnapshotList)
         IN IF found.none
            THEN [exc |-> "TypeError", expr |-> "len(self.snap_object)",
                  found |-> found, snap |-> NoSnapshot]
            ELSE [exc |-> "", expr |-> "",
                  found |-> found, snap |-> Disambiguate(found.items)]

Resolve ==
    /\ pc = "resolve"
    /\ LET r == ResolveOutcome(vm, params, tree)
       IN /\ matches' = r.found
          /\ snap_object' = r.snap
          /\ IF r.exc # ""
             THEN output' = Uncaught(r.exc, r.expr) /\ pc' = "done"
             ELSE output' = output /\ pc' = "lookup"
    /\ UNCHANGED <<params, caps, tree, vm, result, task, taskState, taskError,
                   calls, epoch>>
    /\ UNCHANGED restVars

\* vm_list = self.get_vm_using_params(fail_on_missing=True); self.vm = vm_list[0]
LookupVm ==
    /\ pc = "lookup"
    /\ \E found \in BOOLEAN :
          IF found
          THEN vm' = "looked_up" /\ pc' = "check" /\ output' = output
          ELSE vm' = vm /\ pc' = "done" /\ output' = fail_json(VmNotFoundMsg)
    /\ UNCHANGED <<params, caps, tree, matches, snap_object, result, task,
                   taskState, taskError, calls, epoch>>
    /\ UNCHANGED restVars

SelectorMissing(p) ==
    ~(p.snapshot_name # NoName \/ p.snapshot_id # NoId) /\ p.state # "remove_all"

CheckSelector ==
    /\ pc = "check"
    /\ IF SelectorMissing(params)
       THEN output' = fail_json(NameRequiredMsg(params)) /\ pc' = "done"
       ELSE output' = output /\ pc' = "precheck"
    /\ UNCHANGED <<params, caps, tree, vm, matches, snap_object, result, task,
                   taskState, taskError, calls, epoch>>
    /\ UNCHANGED restVars

----------------------------------------------------------------------------
\* VmSnapshotModule.apply_snapshot_op

\* A variant of the guard that forgets 'rename'.
NeedsSnapshot_ForgetsRename(state) == state \in {"absent", "revert"}

\* The states that need a resolved snapshot.
NeedsSnapshot(state) == state \in {"absent", "revert", "rename"}

PreCheck ==
    /\ pc = "precheck"
    /\ IF NeedsSnapshot(params.state) /\ snap_object = NoSnapshot
       THEN output' = fail_json(NotFoundMsg(params)) /\ pc' = "done"
       ELSE output' = output /\ pc' = "table"
    /\ UNCHANGED <<params, caps, tree, vm, matches, snap_object, result, task,
                   taskState, taskError, calls, epoch>>
    /\ UNCHANGED restVars

\* Building the dispatch dict evaluates self.snap_object.RevertToSnapshot_Task
\* for every state; the 'absent' entry is a lambda and evaluates nothing.
TableRaises(snap) == snap = NoSnapshot

BuildTable ==
    /\ pc = "table"
    /\ IF TableRaises(snap_object)
       THEN output' = Uncaught("AttributeError", "self.snap_object.RevertToSnapshot_Task")
            /\ pc' = "done"
       ELSE output' = output /\ pc' = "call"
    /\ UNCHANGED <<params, caps, tree, vm, matches, snap_object, result, task,
                   taskState, taskError, calls, epoch>>
    /\ UNCHANGED restVars

VendorCall(op, target) ==
    [op |-> op, target |-> target, name |-> NoName, description |-> NoName,
     memory |-> FALSE, quiesce |-> FALSE, removeChildren |-> FALSE]

\* self.vm.CreateSnapshot(snapshot_name, description, memory_dump, quiesce)
CreateSnapshotCall(p, c) ==
    [VendorCall("CreateSnapshot", NoSnapshot) EXCEPT
        !.name = p.snapshot_name,
        !.memory = p.memory_dump /\ c.memorySnapshotsSupported,
        !.quiesce = p.quiesce /\ c.quiescedSnapshotsSupported]

\* self.snap_object.RenameSnapshot(name=..., description=...), by which of the two
\* was supplied.
RenameSnapshotCall(p, snap) ==
    IF p.new_snapshot_name # NoName /\ p.new_description # NoName
    THEN [VendorCall("RenameSnapshot", snap) EXCEPT
             !.name = p.new_snapshot_name, !.description = p.new_description]
    ELSE IF p.new_snapshot_name # NoName
    THEN [VendorCall("RenameSnapshot", snap) EXCEPT !.name = p.new_snapshot_name]
    ELSE [VendorCall("RenameSnapshot", snap) EXCEPT !.description = p.new_description]

\* The entry of snapshot_state_function the state selects, as the vendor call it makes.
DispatchedCall(p, c, snap) ==
    CASE p.state = "present" -> CreateSnapshotCall(p, c)
      [] p.state = "rename" -> RenameSnapshotCall(p, snap)
      [] p.state = "absent" ->
            [VendorCall("RemoveSnapshot_Task", snap) EXCEPT
                !.removeChildren = p.remove_children]
      [] p.state = "revert" -> VendorCall("RevertToSnapshot_Task", snap)
      [] p.state = "remove_all" -> VendorCall("RemoveAllSnapshots", NoSnapshot)

\* snapshot_vm returns early, through exit_json, when a snapshot was resolved.
AlreadyExists(p, snap) == p.state = "present" /\ snap # NoSnapshot

\* The message of the failure a raising vendor call ends in: snapshot_vm has its
\* own handlers, the others reach the handler around the dispatch.
RaisedMsg(p, exc, text) ==
    IF p.state = "present"
    THEN IF exc = "RestrictedVersion" THEN RestrictedMsg(text) ELSE CreateFailedMsg(text)
    ELSE to_text(text)

\* self.result after the dispatched function returned normally.
ResultAfterCall(p, res) ==
    IF p.state = "rename"
    THEN [res EXCEPT !.changed = TRUE, !.renamed = TRUE]
    ELSE res

\* task = snapshot_state_function[state]()  (with its try/except)
CallOp ==
    /\ pc = "call"
    /\ IF AlreadyExists(params, snap_object)
       THEN /\ output' = exit_json_msg(FALSE, AlreadyExistsMsg(params))
            /\ pc' = "done"
            /\ UNCHANGED <<result, task, taskState, calls, epoch>>
       ELSE /\ calls' = Append(calls, DispatchedCall(params, caps, snap_object))
            /\ \E ret \in {"handle", "None", "RestrictedVersion", "Exception"},
                  text \in ErrorTexts :
                  CASE ret = "handle" ->
                          /\ task' = "handle" /\ taskState' = "running"
                          /\ result' = ResultAfterCall(params, result)
                          /\ pc' = "returned"
                          /\ UNCHANGED <<output, epoch>>
                    [] ret = "None" ->
                          /\ task' = "None" /\ epoch' = epoch + 1
                          /\ result' = ResultAfterCall(params, result)
                          /\ pc' = "returned"
                          /\ UNCHANGED <<output, taskState>>
                    [] OTHER ->
                          /\ output' = fail_json(RaisedMsg(params, ret, text))
                          /\ pc' = "done"
                          /\ UNCHANGED <<result, task, taskState, epoch>>
    /\ UNCHANGED <<params, caps, tree, vm, matches, snap_object, taskError>>
    /\ UNCHANGED restVars

\* if not task: return
AfterCall ==
    /\ pc = "returned"
    /\ pc' = IF task = "None" THEN "exit" ELSE "wait"
    /\ UNCHANGED <<params, caps, tree, vm, matches, snap_object, result, task,
                   taskState, taskError, calls, epoch, output>>
    /\ UNCHANGED restVars

\* The server finishes the task, in success or in error.
TaskCompletes ==
    /\ taskState = "running"
    /\ \E end \in {"success"} \cup ErrorTexts :
          IF end = "success"
          THEN taskState' = "success" /\ epoch' = epoch + 1 /\ taskError' = taskError
          ELSE taskState' = "error" /\ epoch' = epoch /\ taskError' = end
    /\ UNCHANGED <<params, caps, tree, vm, matches, snap_object, result, task,
                   calls, pc, output>>
    /\ UNCHANGED restVars

\* list_snapshots(self.vm): the projection of the tree as the server holds it now.
list_snapshots(ep) == [version |-> ep]

\* self.result after a successful wait.
ResultAfterWait(res, ep) ==
    [res EXCEPT !.changed = TRUE, !.snapshot_results = list_snapshots(ep).version]

\* A variant of the wait that swallows TaskError and returns to main.
WaitForCompletion_SwallowsError ==
    /\ pc = "wait"
    /\ taskState \in {"success", "error"}
    /\ output' = output
    /\ pc' = "exit"
    /\ result' = IF taskState = "error" THEN result ELSE ResultAfterWait(result, epoch)
    /\ UNCHANGED <<params, caps, tree, vm, matches, snap_object, task, taskState,
                   taskError, calls, epoch>>
    /\ UNCHANGED restVars

\* RunningTaskMonitor(task).wait_for_completion(vm=self.vm) returns once the task is
\* terminal, raising TaskError for a failed one.
WaitForCompletion ==
    /\ pc = "wait"
    /\ taskState \in {"success", "error"}
    /\ IF taskState = "error"
       THEN output' = fail_json(to_text(taskError)) /\ pc' = "done" /\ result' = result
       ELSE output' = output /\ pc' = "exit" /\ result' = ResultAfterWait(result, epoch)
    /\ UNCHANGED <<params, caps, tree, vm, matches, snap_object, task, taskState,
                   taskError, calls, epoch>>
    /\ UNCHANGED restVars

\* main: module.exit_json(**vm_snapshot.result)
MainExit ==
    /\ pc = "exit"
    /\ output' = exit_json(result)
    /\ pc' = "done"
    /\ UNCHANGED <<params, caps, tree, vm, matches, snap_object, result, task,
                   taskState, taskError, calls, epoch>>
    /\ UNCHANGED restVars

Next ==
    \/ BaseInit
    \/ Resolve
    \/ LookupVm
    \/ CheckSelector
    \/ PreCheck
    \/ BuildTable
    \/ CallOp
    \/ AfterCall
    \/ TaskCompletes
    \/ WaitForCompletion
    \/ MainExit

----------------------------------------------------------------------------
\* plugins/module_utils/clients/_rest.py: VmwareRestClient.connect_to_api

\* Number of %s conversions in "{%s}://{%s}:{%s}".
ProxyFormatConversions == 3

\* connection_params: '' stands for a key that is missing, None or empty; 0 for a
\* port that is missing or None.
ConnSpace ==
    [ hostname : {NoName, "vcenter"},
      username : {NoName, "user"},
      password : {NoName, "secret"},
      port : {DefaultPort},
      validate_certs : BOOLEAN,
      http_proxy_host : {NoName, "proxy"},
      http_proxy_port : {0, 3128},
      http_proxy_protocol : {NoName, "http", "https"} ]

\* A variant of the validation that forgets the password.
validate_required_connection_params_NoPassword(hostname, username, password) ==
    IF hostname = NoName THEN <<"Hostname parameter is missing">>
    ELSE IF username = NoName THEN <<"Username parameter is missing">>
    ELSE <<>>

\* __validate_required_connection_params: the message of the ApiAccessError it
\* raises, <<>> when it returns.
validate_required_connection_params(hostname, username, password) ==
    IF hostname = NoName THEN <<"Hostname parameter is missing">>
    ELSE IF username = NoName THEN <<"Username parameter is missing">>
    ELSE IF password = NoName THEN <<"Password parameter is missing">>
    ELSE <<>>

ValidateParams ==
    /\ rpc = "validate"
    /\ LET msg == validate_required_connection_params(
                      conn.hostname, conn.username, conn.password)
       IN IF Len(msg) > 0
          THEN raised' = ApiAccessError(msg) /\ rpc' = "done"
          ELSE raised' = raised /\ rpc' = "session"
    /\ UNCHANGED <<conn, session, warningsOff, authCalls, client>>
    /\ UNCHANGED vars

\* session = requests.Session()
BuildSession ==
    /\ rpc = "session"
    /\ session' = [built |-> TRUE, verify |-> TRUE, proxies |-> {}]
    /\ rpc' = "ssl"
    /\ UNCHANGED <<conn, warningsOff, authCalls, client, raised>>
    /\ UNCHANGED vars

\* __configure_session_ssl_context, with urllib3 importable or not.
ConfigureSsl ==
    /\ rpc = "ssl"
    /\ session' = [session EXCEPT !.verify = conn.validate_certs]
    /\ \E HAS_URLLIB3 \in BOOLEAN :
          warningsOff' = (~conn.validate_certs /\ HAS_URLLIB3)
    /\ rpc' = "proxies"
    /\ UNCHANGED <<conn, authCalls, client, raised>>
    /\ UNCHANGED vars

\* Python's  fmt % args : TypeError unless the arguments match the conversions.
PercentFormat(conversions, args) ==
    IF Len(args) # conversions
    THEN [raises |-> TRUE, text |-> <<>>]
    ELSE [raises |-> FALSE, text |-> args]

\* all([http_proxy_host, http_proxy_port, http_proxy_protocol])
ProxySupplied(c) ==
    c.http_proxy_host # NoName /\ c.http_proxy_port # 0 /\ c.http_proxy_protocol # NoName

\* The value of the dict entry: the tuple ("{%s}://{%s}:{%s}" % protocol, host, port),
\* since % binds tighter than the commas; the format gets one argument.
ProxyValue(c) ==
    LET first == PercentFormat(ProxyFormatConversions, <<c.http_proxy_protocol>>)
    IN [raises |-> first.raises,
        value |-> <<first.text, c.http_proxy_host, ToString(c.http_proxy_port)>>]

\* __configure_session_proxies
ConfigureProxies ==
    /\ rpc = "proxies"
    /\ IF ProxySupplied(conn)
       THEN IF ProxyValue(conn).raises
            THEN /\ raised' = [type |-> "TypeError",
                               msg |-> <<"not enough arguments for format string">>]
                 /\ rpc' = "done"
                 /\ session' = session
            ELSE /\ session' = [session EXCEPT !.proxies =
                        { e \in @ : e.protocol # conn.http_proxy_protocol } \cup
                        { [protocol |-> conn.http_proxy_protocol,
                           url |-> ProxyValue(conn).value] }]
                 /\ raised' = raised
                 /\ rpc' = "auth"
       ELSE session' = session /\ raised' = raised /\ rpc' = "auth"
    /\ UNCHANGED <<conn, warningsOff, authCalls, client>>
    /\ UNCHANGED vars

\* __create_client_connection: create_vsphere_client returns a client or None, or
\* raises SSLError or another exception.
CreateClientConnection ==
    /\ rpc = "auth"
    /\ authCalls' = Append(authCalls,
            [server |-> <<conn.hostname, ToString(conn.port)>>,
             username |-> conn.username, password |-> conn.password,
             session |-> session])
    /\ \E ret \in {"client", "None", "SSLError", "Exception"}, text \in ErrorTexts :
          CASE ret = "client" ->
                  client' = "client" /\ raised' = raised
            [] ret = "None" ->
                  /\ client' = client
                  /\ raised' = ApiAccessError(<<"Failed to login to", conn.hostname>>)
            [] ret = "SSLError" ->
                  /\ client' = client
                  /\ raised' = ApiAccessError(
                        <<"Failed to connect to vCenter or ESXi API at", conn.hostname,
                          ToString(conn.port), "due to SSL verification failure", text>>)
            [] OTHER ->
                  /\ client' = client
                  /\ raised' = ApiAccessError(
                        <<"Failed to connect to vCenter or ESXi API at", conn.hostname,
                          ToString(conn.port), text>>)
    /\ rpc' = "done"
    /\ UNCHANGED <<conn, session, warningsOff>>
    /\ UNCHANGED vars

\* The snapshot module is not running: the state of its variables in a run of the
\* client.
SnapshotIdle ==
    /\ params = [state |-> "present", snapshot_name |-> NoName, snapshot_id |-> NoId,
                 quiesce |-> FALSE, memory_dump |-> FALSE, remove_children |-> FALSE,
                 new_snapshot_name |-> NoName, new_description |-> NoName]
    /\ caps = [memorySnapshotsSupported |-> TRUE, quiescedSnapshotsSupported |-> TRUE]
    /\ tree = <<>>
    /\ vm = "unbound"
    /\ matches = NoneValue
    /\ snap_object = NoSnapshot
    /\ result = [changed |-> FALSE, renamed |-> FALSE, snapshot_results |-> NoResults]
    /\ task = "unset"
    /\ taskState = "none"
    /\ taskError = ""
    /\ calls = <<>>
    /\ epoch = 0
    /\ pc = "idle"
    /\ output = NoOutput

\* connect_to_api is entered with some connection_params.
RestInit ==
    /\ SnapshotIdle
    /\ conn \in ConnSpace
    /\ session = NoSession
    /\ warningsOff = FALSE
    /\ authCalls = <<>>
    /\ client = "none"
    /\ raised = NotRaised
    /\ rpc = "validate"

RestNext ==
    \/ ValidateParams
    \/ BuildSession
    \/ ConfigureSsl
    \/ ConfigureProxies
    \/ CreateClientConnection

\* One call of VmwareRestClient.connect_to_api.
SpecRest == RestInit /\ [][RestNext]_allVars

\* One invocation of the vm_snapshot module.
Spec == Init /\ [][Next]_allVars

----------------------------------------------------------------------------
\* Properties.

\* The nodes of the VM's tree, at any depth, whose name is the requested one.
NodesNamed == { n \in { AllNodes(tree)[i] : i \in 1..Len(AllNodes(tree)) } :
                  n.name = params.snapshot_name }

\* The nodes the search of __init__ returned.
Returned == { matches.items[i] : i \in 1..Len(matches.items) }

\* The invocation ended inside __init__ (an exception of the resolution block, the
\* VM lookup, or the selector check), so apply_snapshot_op never ran.
ConstructorFailed ==
    /\ output.kind \in {"fail", "crash"}
    /\ output.msg \in { <<"AttributeError", "self.vm">>,
                        <<"TypeError", "len(self.snap_object)">>,
                        VmNotFoundMsg,
                        NameRequiredMsg(params) }

\* The invocation ended, and did so in apply_snapshot_op or after it.
EndedAfterInit == pc = "done" /\ ~ConstructorFailed

\* The collaborators this model leaves open did their part: the base constructor
\* left a VM bound to self.vm and the VM lookup found the VM.
EnvironmentOk == vm # "unbound" /\ output.msg # VmNotFoundMsg

\* C1: get_snapshots_by_name_recursively(T, N) returns exactly the nodes of T, at any
\* depth, whose name is N, descendants of a matching node included.
C1_FindByNameReturnsAllMatches ==
    (SearchKind(params) = "name" /\ ~matches.none) =>
        /\ Returned = NodesNamed
        /\ Len(matches.items) = Cardinality(NodesNamed)

\* C2: the resolved snapshot is a node only when exactly one node of the tree has the
\* requested name; with zero or several such nodes state=absent ends in the not-found
\* failure and RemoveSnapshot_Task is never called.
C2_AmbiguousNameResolvesToNone ==
    SearchKind(params) = "name" =>
        /\ snap_object # NoSnapshot => Cardinality(NodesNamed) = 1
        /\ (Cardinality(NodesNamed) # 1 /\ params.state = "absent") =>
              /\ \A i \in 1..Len(calls) : calls[i].op # "RemoveSnapshot_Task"
              /\ EndedAfterInit => output = fail_json(NotFoundMsg(params))

\* C3: state=present with no resolved snapshot makes exactly one CreateSnapshot call,
\* with quiesce and memory each (requested AND supported by the VM), and ends with
\* changed=true once the task succeeded.
C3_PresentCreatesWithDowngradedFlags ==
    (EndedAfterInit /\ params.state = "present" /\ snap_object = NoSnapshot) =>
        /\ Len(calls) = 1
        /\ calls[1].op = "CreateSnapshot"
        /\ calls[1].quiesce = (params.quiesce /\ caps.quiescedSnapshotsSupported)
        /\ calls[1].memory = (params.memory_dump /\ caps.memorySnapshotsSupported)
        /\ taskState = "success" => (output.kind = "exit" /\ output.changed)

\* C4: state=present when the tree already holds a snapshot with the requested name
\* exits with changed=false and the already-exists message, without a CreateSnapshot
\* call.
C4_PresentOnExistingNameIsNoOp ==
    (EndedAfterInit /\ params.state = "present" /\ params.snapshot_name # NoName
        /\ NodesNamed # {}) =>
        /\ output = exit_json_msg(FALSE, AlreadyExistsMsg(params))
        /\ Len(calls) = 0

\* C5: state=remove_all with no selector, on any tree (the empty one included),
\* calls RemoveAllSnapshots and, the vendor operation succeeding, exits with
\* changed=true.
C5_RemoveAllNeedsNoSelector ==
    (pc = "done" /\ EnvironmentOk /\ params.state = "remove_all"
        /\ params.snapshot_name = NoName /\ params.snapshot_id = NoId) =>
        /\ Len(calls) = 1
        /\ calls[1].op = "RemoveAllSnapshots"
        /\ output.kind # "crash"
        /\ taskState = "success" => (output.kind = "exit" /\ output.changed)

\* C6: with a name the tree is searched by name; with only an id it is searched by
\* id when state is absent or revert; for any other state with only an id nothing is
\* searched and the resolved snapshot is none, whatever the tree holds.
C6_SelectorPrecedence ==
    (pc \notin {"super", "resolve"} /\ EnvironmentOk /\ Len(tree) > 0) =>
        /\ params.snapshot_name # NoName =>
              matches = ListValue(get_snapshots_by_name_recursively(tree, params.snapshot_name))
        /\ (params.snapshot_name = NoName /\ params.snapshot_id # NoId
                /\ params.state \in {"absent", "revert"}) =>
              matches = ListValue(get_snapshots_by_id_recursively(tree, params.snapshot_id))
        /\ (params.snapshot_name = NoName /\ params.snapshot_id # NoId
                /\ params.state \notin {"absent", "revert"}) =>
              /\ matches.none
              /\ snap_object = NoSnapshot
              /\ output.kind # "crash"

C8_NoPartialSuccess ==
    task = "handle" =>
        /\ (output.kind = "exit" /\ output.changed) =>
              (taskState = "success" /\ output.snapshot_results # NoResults)
        /\ (output.kind = "exit" /\ output.renamed) => taskState = "success"
        /\ (pc = "done" /\ taskState = "error") =>
              (output = fail_json(to_text(taskError)) /\ ~output.changed)
        /\ pc = "exit" => taskState = "success"

\* C8 witness: a rename whose task failed after changed/renamed were set.
C8_Witness ==
    /\ pc = "done"
    /\ params.state = "rename"
    /\ task = "handle"
    /\ taskState = "error"
    /\ result.changed /\ result.renamed
    /\ output = fail_json(to_text(taskError))

\* C9: every invocation that exits with changed=true returns snapshot_results
\* refreshed through list_snapshots after the operation; a rename whose vendor call
\* returned no task handle included.
C9_ChangedCarriesRefreshedResults ==
    (output.kind = "exit" /\ output.changed) =>
        output.snapshot_results = list_snapshots(epoch).version

\* C10: with neither snapshot_name nor snapshot_id and a state other than remove_all
\* the invocation fails with "snapshot_name param required when state is '<state>'"
\* and makes no vendor call, whatever the tree holds.
C10_MissingSelectorFailsWithMessage ==
    (pc = "done" /\ EnvironmentOk /\ params.state # "remove_all"
        /\ params.snapshot_name = NoName /\ params.snapshot_id = NoId) =>
        /\ output = fail_json(NameRequiredMsg(params))
        /\ Len(calls) = 0

\* C13: the VM is looked up and assigned to self.vm before the resolution block reads
\* its snapshot tree: the resolution step runs only with self.vm holding the VM that
\* get_vm_using_params returned.
C13_LookupBeforeResolution ==
    [][(pc = "resolve" /\ pc' # "resolve") => vm = "looked_up"]_vars

\* hostname, username and password are all non-empty.
CredentialsComplete ==
    conn.hostname # NoName /\ conn.username # NoName /\ conn.password # NoName

\* The message naming the first missing field, in the order hostname, username,
\* password.
FirstMissingField ==
    IF conn.hostname = NoName THEN <<"Hostname parameter is missing">>
    ELSE IF conn.username = NoName THEN <<"Username parameter is missing">>
    ELSE <<"Password parameter is missing">>

\* C11: connect_to_api builds a session and calls create_vsphere_client only when
\* hostname, username and password are all non-empty; otherwise it raises an
\* ApiAccessError naming the first missing field (hostname, username, password in
\* that order), with no session built and no authentication call made.
C11_ConnectOnlyWithCredentials ==
    /\ (session.built \/ Len(authCalls) > 0 \/ rpc \in {"session", "ssl", "proxies", "auth"})
          => CredentialsComplete
    /\ (rpc = "done" /\ ~CredentialsComplete) =>
          /\ raised = ApiAccessError(FirstMissingField)
          /\ ~session.built
          /\ Len(authCalls) = 0
          /\ client = "none"

\* C11 witness: username and password both missing, the error names the username.
C11_Witness ==
    /\ rpc = "done"
    /\ conn.hostname # NoName /\ conn.username = NoName /\ conn.password = NoName
    /\ raised = ApiAccessError(<<"Username parameter is missing">>)
    /\ ~session.built
    /\ Len(authCalls) = 0

\* C12: with valid credentials, when proxy host, port and protocol are all supplied
\* the session's proxies get an entry for that protocol and create_vsphere_client is
\* then called with that session; when any of the three is missing the proxies stay
\* unchanged and create_vsphere_client is still called.
C12_ProxiesConfiguredBeforeAuth ==
    (rpc = "done" /\ CredentialsComplete) =>
        /\ Len(authCalls) = 1
        /\ authCalls[1].session = session
        /\ IF ProxySupplied(conn)
           THEN \E e \in session.proxies : e.protocol = conn.http_proxy_protocol
           ELSE session.proxies = {}

====
